---- MODULE Spec2Model ----
(***************************************************************************)
(* Smart City Traffic analytics engine (src/src/ml/traffic_ml.py,          *)
(* class TrafficMLSystem) with its background update thread                *)
(* (src/src/api/app.py).                                                   *)
(*                                                                         *)
(* Number conventions.  congestion_score is rounded to 2 decimals by the   *)
(* code, so it is kept as an integer number of hundredths (0..10000).      *)
(* Multipliers are kept as scaled integers (tenths or hundredths, named    *)
(* ...10 / ...100).  Coordinates are offsets from the configured map       *)
(* centre in units of 0.001 degree, which is the grid the road list uses.  *)
(***************************************************************************)
EXTENDS Integers, Sequences, FiniteSets, TLC

(***************************************************************************)
(* Bounds of the model                                                     *)
(***************************************************************************)
MaxTicks == 2

MaxResets == 1

(***************************************************************************)
(* State                                                                   *)
(***************************************************************************)
VARIABLES
    now_hour,            \* datetime.now().hour
    now_weekday,         \* datetime.now().weekday(), 0 = Monday
    simulation_speed10,  \* config.SIMULATION_SPEED, in tenths
    road_state           \* the RoadState dict produced last

simVars == <<now_hour, now_weekday, simulation_speed10, road_state>>

VARIABLES
    clustering,    \* ml_config['clustering']: algorithm and n_clusters
    latest,        \* the road dicts of traffic_history[-1]
    fit,           \* outcome of the fit_predict of the last call
    branch         \* branch the last get_current_traffic call took

clsVars == <<clustering, latest, fit, branch>>

VARIABLES
    max_records,      \* config.MAX_HISTORY_RECORDS
    heap,             \* snapshot objects: id -> random outcome it was built from
    next_id,          \* identity of the next snapshot object
    traffic_history,  \* self.traffic_history: list of snapshot references
    current_traffic,  \* self.current_traffic: road_id -> RoadState reference
    scaler_fit,       \* window self.scaler was last fitted on (<<>> = never)
    detector_fit,     \* window self.anomaly_detector was last fitted on
    tick_pc,          \* position of the background thread
    new_snapshot,     \* its local new_snapshot (0 = none)
    sliced,           \* its evaluated traffic_history[-max_records:]
    ticks,            \* update_traffic_simulation calls started
    reset_pc,         \* position of a request thread in reset_simulation
    resets,           \* reset_simulation calls started
    window,           \* per thread: the training window read by _train_models
    reset_found,      \* the snapshots reset_simulation found in the history
    obs               \* what the last read request observed

engineVars ==
    <<max_records, heap, next_id, traffic_history, current_traffic,
      scaler_fit, detector_fit, tick_pc, new_snapshot, sliced, ticks,
      reset_pc, resets, window, reset_found, obs>>

VARIABLES
    weight_factor10,    \* ml_config['route_optimization']['weight_factor']
    first_node,         \* list(self.graph.nodes())[0]
    congestion_weight,  \* edge attribute congestion_weight, in metres x 1/1000
    query,              \* the route request being served: start, end and
                        \* whether it found other weights on the graph
    route               \* its result

routeVars == <<weight_factor10, first_node, congestion_weight, query, route>>

VARIABLES
    history_len,     \* len(self.traffic_history) seen by detect_anomalies
    snapshot_roads,  \* road_id of the roads of traffic_history[-1]
    scoring,         \* per road: what scaler and anomaly_detector answer
    anomalies,       \* the list detect_anomalies returns
    detect_pc        \* "none", or "returned" once the call has returned

anVars == <<history_len, snapshot_roads, scoring, anomalies, detect_pc>>

VARIABLES
    refresh_interval,  \* config.AUTO_REFRESH_INTERVAL
    loop_pc,           \* position of update_traffic_data in its loop
    loop_error,        \* what the except clause of the loop caught last
    loop_len,          \* len(self.traffic_history) as the ticks leave it
    loop_ticks,        \* snapshots appended by the ticks, modulo 20
    loop_window        \* snapshots the last tick trained on (0 = it did not)

loopVars ==
    <<refresh_interval, loop_pc, loop_error, loop_len, loop_ticks, loop_window>>

VARIABLES
    latest_no,        \* which snapshot is traffic_history[-1]
    numbering,        \* per snapshot: how KMeans numbers its clusters on it
    cluster_centers,  \* self.clustering_model.cluster_centers_
    calls             \* per request thread: its get_current_traffic call

shareVars == <<latest_no, numbering, cluster_centers, calls>>

vars ==
    <<engineVars, simVars, clsVars, routeVars, anVars, loopVars, shareVars>>

(***************************************************************************)
(* Generic helpers                                                         *)
(***************************************************************************)
Min(a, b) == IF a <= b THEN a ELSE b

Range(s) == {s[i] : i \in DOMAIN s}

\* Python int(x) on the rational num/den (den > 0): truncation toward zero.
IntTrunc(num, den) == IF num >= 0 THEN num \div den ELSE -((-num) \div den)

\* Python round(x, 2) on a value given as num/den hundredths (num >= 0).
RoundDiv(num, den) == (2 * num + den) \div (2 * den)

Last(seq) == seq[Len(seq)]

\* A slice taken from the wrong end: seq[:n]
FirstN(seq, n) ==
    IF Len(seq) <= n THEN seq ELSE SubSeq(seq, 1, n)

\* Python seq[-n:] for n >= 1: the last n elements, or all if fewer.
LastN(seq, n) ==
    IF Len(seq) <= n THEN seq ELSE SubSeq(seq, Len(seq) - n + 1, Len(seq))

\* Integer square root (floor).
ISqrt(n) == CHOOSE r \in 0..n : r * r <= n /\ (r + 1) * (r + 1) > n

(***************************************************************************)
(* Road network: _initialize_road_network                                  *)
(***************************************************************************)
Road(id, name, sx, sy, ex, ey, type) ==
    [id |-> id, name |-> name, start |-> <<sx, sy>>, end |-> <<ex, ey>>,
     type |-> type]

ROADS ==
    << Road("R001", "Main Street",    0, 0, 1, 1, "arterial"),
       Road("R002", "Broadway",       1, 1, 2, 2, "arterial"),
       Road("R003", "Park Avenue",    2, 2, 3, 3, "arterial"),
       Road("R004", "5th Avenue",     3, 3, 4, 4, "arterial"),
       Road("R005", "Madison Ave",    4, 4, 5, 5, "arterial"),
       Road("R006", "42nd Street",    0, 0, 0, 6, "collector"),
       Road("R007", "34th Street",    1, 1, 1, 5, "collector"),
       Road("R008", "23rd Street",    2, 2, 2, 6, "collector"),
       Road("R009", "14th Street",    3, 3, 3, 5, "collector"),
       Road("R010", "Houston St",     4, 4, 4, 6, "collector"),
       Road("R011", "1st Avenue",     0, 6, 5, 6, "local"),
       Road("R012", "2nd Avenue",     0, 5, 5, 5, "local"),
       Road("R013", "3rd Avenue",     0, 4, 5, 4, "local"),
       Road("R014", "Lexington Ave",  0, 3, 5, 3, "local"),
       Road("R015", "Park Ave South", 0, 2, 5, 2, "local") >>

NumRoads == Len(ROADS)

RoadIds == {ROADS[i].id : i \in 1..NumRoads}

RoadTypes == {"arterial", "collector", "local"}

(***************************************************************************)
(* Road graph: _create_road_graph                                          *)
(***************************************************************************)
\* f"{lat:.4f},{lng:.4f}": the coordinate rounded to 4 decimals.  A grid
\* offset of k * 0.001 degree is k * 10 units of the fourth decimal.
NodeKey(coord) == <<coord[1] * 10, coord[2] * 10>>

Nodes ==
    {NodeKey(ROADS[i].start) : i \in 1..NumRoads}
        \cup {NodeKey(ROADS[i].end) : i \in 1..NumRoads}

\* The undirected edge G.add_edge(start_node, end_node, ...) of road i
EdgeOf(i) == {NodeKey(ROADS[i].start), NodeKey(ROADS[i].end)}

Edges == {EdgeOf(i) : i \in 1..NumRoads}

\* The road whose attributes the edge carries (a later add_edge on the same
\* pair of nodes overwrites the attributes)
EdgeRoad(e) ==
    LET i == CHOOSE j \in 1..NumRoads :
                /\ EdgeOf(j) = e
                /\ \A k \in 1..NumRoads : EdgeOf(k) = e => k <= j
    IN  ROADS[i]

\* np.sqrt(dlat^2 + dlng^2) * 111000, in whole metres (0.001 degree = 111 m)
Distance(road) ==
    LET dx == road.end[1] - road.start[1]
        dy == road.end[2] - road.start[2]
    IN  ISqrt((dx * dx + dy * dy) * 111 * 111)

\* The tables of the graph object: G[u][v] attributes and adjacency
EDGE_ROAD == [e \in Edges |-> EdgeRoad(e)]

DISTANCE == [e \in Edges |-> Distance(EdgeRoad(e))]

Neighbours(n) == {m \in Nodes : {n, m} \in Edges /\ m # n}

ADJ == [n \in Nodes |-> Neighbours(n)]

(***************************************************************************)
(* Traffic simulator: _simulate_traffic_snapshot                           *)
(***************************************************************************)
\* random.randint(lo, hi) range of the base traffic of a road type
BaseTrafficLo(type) ==
    CASE type = "arterial" -> 50 [] type = "collector" -> 20 [] OTHER -> 5

BaseTrafficHi(type) ==
    CASE type = "arterial" -> 150 [] type = "collector" -> 80 [] OTHER -> 40

max_capacity(type) ==
    CASE type = "arterial" -> 200 [] type = "collector" -> 100 [] OTHER -> 50

\* An hour-of-day multiplier whose evening rush lasts one hour longer
HourMultiplierLongRush(hour) ==
    IF (7 <= hour /\ hour <= 9) \/ (17 <= hour /\ hour <= 20) THEN 25
    ELSE IF 22 <= hour \/ hour <= 6 THEN 3
    ELSE IF 10 <= hour /\ hour <= 16 THEN 12
    ELSE 10

\* Hour-of-day multiplier, in tenths (25 = 2.5)
HourMultiplier10(hour) ==
    IF (7 <= hour /\ hour <= 9) \/ (17 <= hour /\ hour <= 19) THEN 25
    ELSE IF 22 <= hour \/ hour <= 6 THEN 3
    ELSE IF 10 <= hour /\ hour <= 16 THEN 12
    ELSE 10

\* Weekend factor, in tenths (7 = 0.7)
WeekendFactor10(day_of_week) == IF day_of_week >= 5 THEN 7 ELSE 10

\* rush_hour_multiplier after the weekend factor and SIMULATION_SPEED
\* (speed10 = speed in tenths), in thousandths
rush_hour_multiplier1000(hour, day_of_week, speed10) ==
    HourMultiplier10(hour) * WeekendFactor10(day_of_week) * speed10

\* The random draws of one road: base = randint, noise100 = uniform(0.7,1.3)
\* in hundredths, spike = (random() < 0.05), spike_c100 / spike_v100 = the two
\* independent uniform(1.5, 2.0) draws in hundredths.
Draw(base, noise100, spike, spike_c100, spike_v100) ==
    [base |-> base, noise100 |-> noise100, spike |-> spike,
     spike_c100 |-> spike_c100, spike_v100 |-> spike_v100]

\* The score without the clamp to 100
CongestionUnclamped(vehicle_count, type) ==
    IntTrunc(vehicle_count * 10000, max_capacity(type))

\* congestion_score = min(100, (vehicle_count / max_capacity) * 100), hundredths
CongestionOf(vehicle_count, type) ==
    Min(10000, IntTrunc(vehicle_count * 10000, max_capacity(type)))

\* One RoadState of a snapshot
SimulateRoad(road, hour, day_of_week, speed10, d) ==
    LET m1000 == rush_hour_multiplier1000(hour, day_of_week, speed10)
        vc0   == IntTrunc(d.base * m1000 * d.noise100, 100000)
        cs0   == CongestionOf(vc0, road.type)
        cs1   == IF d.spike
                 THEN Min(10000, RoundDiv(cs0 * d.spike_c100, 100))
                 ELSE cs0
        vc1   == IF d.spike THEN IntTrunc(vc0 * d.spike_v100, 100) ELSE vc0
    IN  [road_id |-> road.id, vehicle_count |-> vc1, congestion_score |-> cs1,
         road_type |-> road.type]

\* A whole snapshot: one RoadState per road segment, in road order
SimulateSnapshot(hour, day_of_week, speed10, draws) ==
    [i \in 1..NumRoads |->
        SimulateRoad(ROADS[i], hour, day_of_week, speed10, draws[i])]

(***************************************************************************)
(* The simulator on its own: clock, configured speed, one produced         *)
(* RoadState                                                               *)
(***************************************************************************)
\* Largest configured SIMULATION_SPEED explored, in tenths
MaxSpeed10 == 30

\* Values of config.SIMULATION_SPEED explored (tenths; 10 is the default 1.0)
Speeds10 == {0, 5, 10, MaxSpeed10}

\* Outcomes of random.uniform(0.7, 1.3) explored, in hundredths
Noise100 == {70, 100, 130}

\* Outcomes of random.uniform(1.5, 2.0) explored, in hundredths
Spike100 == {150, 200}

\* The outcomes of the random draws of one road of the given type
Draws(type) ==
    {Draw(b, n, FALSE, 150, 150) :
        b \in {BaseTrafficLo(type), BaseTrafficHi(type)}, n \in Noise100}
    \cup
    {Draw(b, n, TRUE, c, v) :
        b \in {BaseTrafficLo(type), BaseTrafficHi(type)}, n \in Noise100,
        c \in Spike100, v \in Spike100}

NoRoadState ==
    [road_id |-> "", vehicle_count |-> 0, congestion_score |-> 0,
     road_type |-> ""]

SimIdle ==
    /\ now_hour = 0
    /\ now_weekday = 0
    /\ simulation_speed10 = 10
    /\ road_state = NoRoadState

SimInit ==
    /\ now_hour \in 0..23
    /\ now_weekday \in 0..6
    /\ simulation_speed10 \in Speeds10
    /\ road_state = NoRoadState

\* One iteration of the loop over self.road_segments
SimulateRoadState ==
    /\ road_state = NoRoadState
    /\ \E i \in 1..NumRoads :
          \E d \in Draws(ROADS[i].type) :
             road_state' = SimulateRoad(ROADS[i], now_hour, now_weekday, simulation_speed10, d)
    /\ UNCHANGED <<now_hour, now_weekday, simulation_speed10>>
    /\ UNCHANGED <<engineVars, clsVars, routeVars, anVars, loopVars, shareVars>>

\* The wall clock moves to the next now_hour
ClockAdvance ==
    /\ now_hour' = (now_hour + 1) % 24
    /\ now_weekday' = IF now_hour = 23 THEN (now_weekday + 1) % 7 ELSE now_weekday
    /\ road_state' = NoRoadState
    /\ UNCHANGED simulation_speed10
    /\ UNCHANGED <<engineVars, clsVars, routeVars, anVars, loopVars, shareVars>>

(***************************************************************************)
(* Congestion classifier: _initialize_ml_models and get_current_traffic    *)
(***************************************************************************)
\* Largest number of roads in a classified snapshot
MaxSamples == 4

\* congestion_score values explored, around the two thresholds (hundredths)
ScoreValues == {2999, 3000, 7000}

\* cluster centre values a fit can report (hundredths)
CenterValues == {1000, 5000, 9000}

\* Values of CLUSTERING_ALGORITHM and CLUSTERING_N_CLUSTERS explored
Algorithms == {"kmeans", "dbscan", "other"}

NClusters == 0..5

LEVELS == <<"Low", "Medium", "High">>

\* A road dict that get_current_traffic has not labelled yet has neither key
NoLevel == "absent"

NoCluster == -9

Unlabelled(score) ==
    [congestion_score |-> score, congestion_level |-> NoLevel,
     cluster_id |-> NoCluster]

\* Snapshots of n unlabelled roads
Snapshots(n) ==
    {[i \in 1..n |-> Unlabelled(sc[i])] : sc \in [1..n -> ScoreValues]}

\* Outcome of self.clustering_model.fit_predict(...): it raises, or it returns
\* one cluster index per sample; a KMeans model then has cluster_centers_
\* (centers[c + 1] is the centre of cluster c), a DBSCAN model has none and
\* may answer -1 (noise).
Raised == [called |-> TRUE, raised |-> TRUE, clusters |-> <<>>,
           has_centers |-> FALSE, centers |-> <<>>]

Fitted(clusters, has_centers, centers) ==
    [called |-> TRUE, raised |-> FALSE, clusters |-> clusters,
     has_centers |-> has_centers, centers |-> centers]

\* fit_predict has not been called
NoFit == [called |-> FALSE, raised |-> FALSE, clusters |-> <<>>,
          has_centers |-> FALSE, centers |-> <<>>]

\* _initialize_ml_models creates no clustering_model for an algorithm other
\* than kmeans and dbscan (reading the attribute raises); KMeans refuses
\* n_clusters < 1 and fewer samples than clusters.
FitMustRaise(cfg, n) ==
    \/ cfg.algorithm \notin {"kmeans", "dbscan"}
    \/ cfg.algorithm = "kmeans" /\ (cfg.n_clusters < 1 \/ n < cfg.n_clusters)

\* An insertion that is not stable: an equal centre goes before the others
RECURSIVE InsertUnstable(_, _)
InsertUnstable(sorted, pair) ==
    IF sorted = <<>> THEN <<pair>>
    ELSE IF Last(sorted)[2] < pair[2] THEN Append(sorted, pair)
    ELSE Append(InsertUnstable(SubSeq(sorted, 1, Len(sorted) - 1), pair),
                Last(sorted))

\* sorted(enumerate(cluster_centers), key=lambda x: x[1]): stable insertion
\* of the pairs <<cluster_idx, centre>> in ascending order of the centre
RECURSIVE InsertSorted(_, _)
InsertSorted(sorted, pair) ==
    IF sorted = <<>> THEN <<pair>>
    ELSE IF Last(sorted)[2] <= pair[2] THEN Append(sorted, pair)
    ELSE Append(InsertSorted(SubSeq(sorted, 1, Len(sorted) - 1), pair),
                Last(sorted))

RECURSIVE SortedPrefix(_, _)
SortedPrefix(centers, k) ==
    IF k = 0 THEN <<>>
    ELSE InsertSorted(SortedPrefix(centers, k - 1), <<k - 1, centers[k]>>)

sorted_centers(centers) == SortedPrefix(centers, Len(centers))

\* ['Low', 'Medium', 'High'][i] raises IndexError for a fourth centre
MappingRaises(centers) == Len(centers) > Len(LEVELS)

\* cluster_mapping[cluster_idx] = ['Low', 'Medium', 'High'][i]
cluster_mapping(centers) ==
    LET sc == sorted_centers(centers)
    IN  [c \in {sc[i][1] : i \in 1..Len(sc)} |->
            LEVELS[CHOOSE i \in 1..Len(sc) : sc[i][1] = c]]

\* road['congestion_level'] = cluster_mapping.get(clusters[i], 'Medium');
\* road['cluster_id'] = int(clusters[i])
LabelByCluster(road, cluster, mapping) ==
    [road EXCEPT
        !.congestion_level =
            IF cluster \in DOMAIN mapping THEN mapping[cluster] ELSE "Medium",
        !.cluster_id = cluster]

\* the branch for a model without cluster_centers_ (DBSCAN)
LabelNoCenters(road, cluster) ==
    [road EXCEPT
        !.congestion_level =
            IF road.congestion_score < 3000 THEN "Low"
            ELSE IF road.congestion_score < 7000 THEN "Medium"
            ELSE "High",
        !.cluster_id = IF cluster # -1 THEN cluster ELSE 0]

\* A fallback with a fourth level above 90
LabelOnErrorSevere(road) ==
    [road EXCEPT
        !.congestion_level =
            IF road.congestion_score < 3000 THEN "Low"
            ELSE IF road.congestion_score < 7000 THEN "Medium"
            ELSE "Severe",
        !.cluster_id = 0]

\* the except branch: fallback classification
LabelOnError(road) ==
    [road EXCEPT
        !.congestion_level =
            IF road.congestion_score < 3000 THEN "Low"
            ELSE IF road.congestion_score < 7000 THEN "Medium"
            ELSE "High",
        !.cluster_id = 0]

\* A fallback whose thresholds are inclusive
LabelSmallInclusive(road) ==
    [road EXCEPT
        !.congestion_level =
            IF road.congestion_score <= 3000 THEN "Low"
            ELSE IF road.congestion_score <= 7000 THEN "Medium"
            ELSE "High",
        !.cluster_id = 0]

\* the else branch: fallback for small datasets
LabelSmall(road) ==
    [road EXCEPT
        !.congestion_level =
            IF road.congestion_score < 3000 THEN "Low"
            ELSE IF road.congestion_score < 7000 THEN "Medium"
            ELSE "High",
        !.cluster_id = 0]

\* if len(congestion_scores) > 3
UsesClustering(snapshot) == Len(snapshot) > 3

\* The branch get_current_traffic takes on a snapshot for a fit outcome
PathTaken(snapshot, o) ==
    IF snapshot = <<>> THEN "empty"
    ELSE IF ~UsesClustering(snapshot) THEN "small"
    ELSE IF o.raised THEN "error"
    ELSE IF ~o.has_centers THEN "no_centers"
    ELSE IF MappingRaises(o.centers) THEN "error"
    ELSE "clustered"

\* The snapshot as get_current_traffic leaves (and returns) it
Classified(snapshot, o) ==
    LET path == PathTaken(snapshot, o)
        mapping == IF path = "clustered" THEN cluster_mapping(o.centers)
                   ELSE <<>>
    IN  [i \in 1..Len(snapshot) |->
            CASE path = "small"      -> LabelSmall(snapshot[i])
              [] path = "error"      -> LabelOnError(snapshot[i])
              [] path = "no_centers" -> LabelNoCenters(snapshot[i], o.clusters[i])
              [] OTHER -> LabelByCluster(snapshot[i], o.clusters[i], mapping)]

\* congestion_distribution of get_traffic_stats on a snapshot: the roads are
\* counted by road.get('congestion_level', 'Medium')
congestion_distribution(snapshot) ==
    [level \in Range(LEVELS) |->
        Cardinality({i \in DOMAIN snapshot :
            level = IF snapshot[i].congestion_level = NoLevel THEN "Medium"
                    ELSE snapshot[i].congestion_level})]

ClsIdle ==
    /\ clustering = [algorithm |-> "kmeans", n_clusters |-> 3]
    /\ latest = <<>>
    /\ fit = NoFit
    /\ branch = "none"

ClsInit ==
    /\ clustering \in [algorithm : Algorithms, n_clusters : NClusters]
    /\ (clustering.algorithm # "kmeans" => clustering.n_clusters = 3)
    /\ \E n \in 0..MaxSamples : latest \in Snapshots(n)
    /\ fit = NoFit
    /\ branch = "none"

\* get_current_traffic on a snapshot that needs no clustering
GetCurrentTrafficSmall ==
    /\ branch = "none"
    /\ ~UsesClustering(latest)
    /\ branch' = PathTaken(latest, NoFit)
    /\ latest' = Classified(latest, NoFit)
    /\ UNCHANGED <<clustering, fit>>
    /\ UNCHANGED <<engineVars, simVars, routeVars, anVars, loopVars, shareVars>>

\* get_current_traffic: fit_predict raises
GetCurrentTrafficRaise ==
    /\ branch = "none"
    /\ UsesClustering(latest)
    /\ fit' = Raised
    /\ branch' = PathTaken(latest, fit')
    /\ latest' = Classified(latest, fit')
    /\ UNCHANGED clustering
    /\ UNCHANGED <<engineVars, simVars, routeVars, anVars, loopVars, shareVars>>

\* get_current_traffic: fit_predict of the KMeans model returns. Its labels
\* are the index of the centre nearest to each sample, so samples of equal
\* score share a cluster; which centre that is, is left open.
GetCurrentTrafficKMeans ==
    /\ branch = "none"
    /\ UsesClustering(latest)
    /\ clustering.algorithm = "kmeans"
    /\ ~FitMustRaise(clustering, Len(latest))
    /\ \E centers \in [1..clustering.n_clusters -> CenterValues] :
          IF MappingRaises(centers)
          THEN fit' = Fitted(<<>>, TRUE, centers)
          ELSE \E nearest \in
                    [ScoreValues -> 0..(clustering.n_clusters - 1)] :
                  fit' = Fitted([i \in 1..Len(latest) |->
                                    nearest[latest[i].congestion_score]],
                                TRUE, centers)
    /\ branch' = PathTaken(latest, fit')
    /\ latest' = Classified(latest, fit')
    /\ UNCHANGED clustering
    /\ UNCHANGED <<engineVars, simVars, routeVars, anVars, loopVars, shareVars>>

\* get_current_traffic: fit_predict of the DBSCAN model returns
GetCurrentTrafficDBSCAN ==
    /\ branch = "none"
    /\ UsesClustering(latest)
    /\ clustering.algorithm = "dbscan"
    /\ \E clusters \in [1..Len(latest) -> {-1, 0, 1}] :
          fit' = Fitted(clusters, FALSE, <<>>)
    /\ branch' = PathTaken(latest, fit')
    /\ latest' = Classified(latest, fit')
    /\ UNCHANGED clustering
    /\ UNCHANGED <<engineVars, simVars, routeVars, anVars, loopVars, shareVars>>

(***************************************************************************)
(* get_current_traffic served by several request threads at once: all of   *)
(* them call fit_predict on the one self.clustering_model and then read    *)
(* its cluster_centers_ attribute.                                         *)
(***************************************************************************)
\* Request threads serving GET /traffic
Threads == {1, 2}

\* congestion scores (hundredths) of the snapshots that are the latest one
\* in turn
SHARED_SCORES ==
    << <<2999, 2999, 3000, 7000>>, <<7000, 3000, 2999, 7000>> >>

SharedSnapshot(no) ==
    [i \in DOMAIN SHARED_SCORES[no] |-> Unlabelled(SHARED_SCORES[no][i])]

\* The ways a 3-cluster KMeans can number its clusters: number[r] is the
\* index of the cluster with the r-th smallest centre
Numberings ==
    {number \in [1..3 -> 0..2] :
        \A r1, r2 \in 1..3 : number[r1] = number[r2] => r1 = r2}

\* fit_predict of the KMeans model with n_clusters = 3 on a snapshot with 3
\* distinct scores: one cluster per score, its centre the score
KMeansFit(snapshot, number) ==
    LET scores == {snapshot[i].congestion_score : i \in DOMAIN snapshot}
        rank == [v \in scores |-> Cardinality({u \in scores : u < v}) + 1]
    IN  Fitted([i \in DOMAIN snapshot |->
                   number[rank[snapshot[i].congestion_score]]],
               TRUE,
               [c \in 1..Cardinality(scores) |->
                   CHOOSE v \in scores : number[rank[v]] = c - 1])

NoCall == [pc |-> "idle", snapshot |-> 0, clusters |-> <<>>, result |-> <<>>]

ShareIdle ==
    /\ latest_no = 1
    /\ numbering = [no \in DOMAIN SHARED_SCORES |-> <<0, 1, 2>>]
    /\ cluster_centers = <<>>
    /\ calls = [t \in Threads |-> NoCall]

\* The model is built with a fixed random_state, so a fit on given data
\* always numbers the clusters the same way; which way depends on the data.
ShareInit ==
    /\ latest_no = 1
    /\ numbering \in [DOMAIN SHARED_SCORES -> Numberings]
    /\ cluster_centers = <<>>
    /\ calls = [t \in Threads |-> NoCall]

\* current_snapshot = self.traffic_history[-1];
\* clusters = self.clustering_model.fit_predict(...): the clusters are local
\* to the call, the centres are left on the shared model
CallFitPredict(t) ==
    /\ calls[t].pc = "idle"
    /\ LET o == KMeansFit(SharedSnapshot(latest_no), numbering[latest_no])
       IN  /\ cluster_centers' = o.centers
           /\ calls' = [calls EXCEPT ![t] =
                           [pc |-> "fitted", snapshot |-> latest_no,
                            clusters |-> o.clusters, result |-> <<>>]]
    /\ UNCHANGED <<latest_no, numbering>>
    /\ UNCHANGED <<engineVars, simVars, clsVars, routeVars, anVars, loopVars>>

\* cluster_centers = self.clustering_model.cluster_centers_.flatten() and
\* the labelling of the roads with the call's clusters
CallLabel(t) ==
    /\ calls[t].pc = "fitted"
    /\ calls' = [calls EXCEPT
                    ![t].pc = "returned",
                    ![t].result =
                        Classified(SharedSnapshot(calls[t].snapshot),
                                   Fitted(calls[t].clusters, TRUE,
                                          cluster_centers))]
    /\ UNCHANGED <<latest_no, numbering, cluster_centers>>
    /\ UNCHANGED <<engineVars, simVars, clsVars, routeVars, anVars, loopVars>>

\* the request returns its payload to the client
CallReturn(t) ==
    /\ calls[t].pc = "returned"
    /\ calls' = [calls EXCEPT ![t] = NoCall]
    /\ UNCHANGED <<latest_no, numbering, cluster_centers>>
    /\ UNCHANGED <<engineVars, simVars, clsVars, routeVars, anVars, loopVars>>

\* an update tick appends a snapshot with other scores
NewLatest ==
    /\ \E no \in DOMAIN SHARED_SCORES \ {latest_no} : latest_no' = no
    /\ UNCHANGED <<numbering, cluster_centers, calls>>
    /\ UNCHANGED <<engineVars, simVars, clsVars, routeVars, anVars, loopVars>>

(***************************************************************************)
(* Engine state: TrafficMLSystem fields and the threads that touch them    *)
(***************************************************************************)
\* range(100) of _generate_initial_data
INITIAL_FILL == 100

\* traffic_history[-50:] of _train_models
TRAIN_WINDOW == 50

\* len(traffic_history) < 10 of _train_models
MIN_TRAIN_HISTORY == 10

\* len(traffic_history) % 20 of update_traffic_simulation
RETRAIN_EVERY == 20

\* default of MAX_HISTORY_RECORDS
DEFAULT_MAX_HISTORY_RECORDS == 200

\* Values of config.MAX_HISTORY_RECORDS explored (any integer >= 1 can be
\* configured through the environment).
Capacities ==
    {1, INITIAL_FILL - 1, INITIAL_FILL, INITIAL_FILL + 1,
     INITIAL_FILL + MaxTicks - 1, DEFAULT_MAX_HISTORY_RECORDS}

\* The random outcomes a snapshot of the engine is built from.  Profile 1 is
\* a quiet night (low base, no spike), profile 2 a rush hour with a spike on
\* every road.
Profiles == {1, 2}

ProfileSnapshot(p) ==
    IF p = 1
    THEN SimulateSnapshot(3, 2, 10,
            [i \in 1..NumRoads |->
                Draw(BaseTrafficLo(ROADS[i].type), 100, FALSE, 150, 150)])
    ELSE SimulateSnapshot(8, 2, 10,
            [i \in 1..NumRoads |->
                Draw(BaseTrafficHi(ROADS[i].type), 130, TRUE, 200, 200)])

\* A reference to the i-th RoadState dict of snapshot object id
Ref(id, i) == <<id, i>>

PROFILE_SNAPSHOT == [p \in Profiles |-> ProfileSnapshot(p)]

\* The list of RoadState dicts of snapshot object id
SnapshotRoads(h, id) == PROFILE_SNAPSHOT[h[id]]

\* {road['road_id']: road for road in new_snapshot}
IndexOf(h, id) ==
    LET roads == SnapshotRoads(h, id)
    IN  [rid \in {roads[i].road_id : i \in DOMAIN roads} |->
            Ref(id, CHOOSE i \in DOMAIN roads : roads[i].road_id = rid)]

EmptyIndex == [rid \in {} |-> Ref(0, 0)]

\* Snapshot objects a current_traffic dict points into
IndexedSnapshots(ct) == {ct[rid][1] : rid \in DOMAIN ct}

\* Reference counting: objects no list, dict or local refers to disappear
Collect(h, hist, ct, locals) ==
    [id \in (Range(hist) \cup IndexedSnapshots(ct) \cup locals)
            \cap DOMAIN h |-> h[id]]

\* no read request is being served
NoObs ==
    [hist_last |-> -1, indexed |-> {}, hist_len |-> -1, during_tick |-> FALSE,
     scaler |-> <<>>, detector |-> <<>>]

\* _generate_initial_data: for i in range(100): traffic_history.append(
\* _simulate_traffic_snapshot()).  The loop runs without preemption here.
FillIds(first) == [i \in 1..INITIAL_FILL |-> first + i - 1]

\* A construction that leaves the scaler and the detector unfitted
NeverTrained(hist) == <<>>

\* _train_models as one call: the window the scaler and the detector are
\* fitted on, none on a history shorter than 10
TrainedOn(hist) ==
    IF Len(hist) >= MIN_TRAIN_HISTORY THEN LastN(hist, TRAIN_WINDOW) ELSE <<>>

\* __init__: empty history and index, then _generate_initial_data
EngineInit ==
    /\ max_records \in Capacities
    /\ next_id = INITIAL_FILL + 1
    /\ traffic_history = FillIds(1)
    /\ heap = [id \in Range(FillIds(1)) |-> 1]
    /\ current_traffic = EmptyIndex
    /\ scaler_fit = TrainedOn(traffic_history)
    /\ detector_fit = TrainedOn(traffic_history)
    /\ tick_pc = "idle"
    /\ new_snapshot = 0
    /\ sliced = <<>>
    /\ ticks = 0
    /\ reset_pc = "idle"
    /\ resets = 0
    /\ window = [t \in {"tick", "reset"} |-> <<>>]
    /\ reset_found = {}
    /\ obs = NoObs

(***************************************************************************)
(* update_traffic_simulation, run by the background thread of              *)
(* start_background_services.  One action per statement: the thread can be *)
(* preempted between any two of them (Flask serves requests on other       *)
(* threads, app.run(threaded=True)).  A tick runs while no route request   *)
(* is being served, or while one is preempted between its weight refresh   *)
(* and its path search (route.status = "weighed").                         *)
(***************************************************************************)
\* new_snapshot = self._simulate_traffic_snapshot();
\* self.traffic_history.append(new_snapshot)
TickAppend ==
    /\ route.status \in {"none", "weighed"}
    /\ obs = NoObs
    /\ tick_pc = "idle"
    /\ ticks < MaxTicks
    /\ \E p \in Profiles :
          heap' = [id \in DOMAIN heap \cup {next_id} |->
                      IF id = next_id THEN p ELSE heap[id]]
    /\ new_snapshot' = next_id
    /\ next_id' = next_id + 1
    /\ traffic_history' = Append(traffic_history, next_id)
    /\ ticks' = ticks + 1
    /\ tick_pc' = "trim"
    /\ UNCHANGED <<max_records, current_traffic, scaler_fit, detector_fit,
                   sliced, reset_pc, resets, window, obs>>
    /\ UNCHANGED reset_found
    /\ UNCHANGED <<simVars, clsVars, routeVars, anVars, loopVars, shareVars>>

\* if len(self.traffic_history) > max_records: evaluate the slice
\* self.traffic_history[-max_records:]
TickTrimSlice ==
    /\ route.status \in {"none", "weighed"}
    /\ obs = NoObs
    /\ tick_pc = "trim"
    /\ IF Len(traffic_history) > max_records
       THEN /\ sliced' = LastN(traffic_history, max_records)
            /\ tick_pc' = "assign"
       ELSE /\ sliced' = sliced
            /\ tick_pc' = "publish"
    /\ UNCHANGED <<max_records, heap, next_id, traffic_history,
                   current_traffic, scaler_fit, detector_fit, new_snapshot,
                   ticks, reset_pc, resets, window, obs>>
    /\ UNCHANGED reset_found
    /\ UNCHANGED <<simVars, clsVars, routeVars, anVars, loopVars, shareVars>>

\* self.traffic_history = <the slice>
TickTrimAssign ==
    /\ route.status \in {"none", "weighed"}
    /\ obs = NoObs
    /\ tick_pc = "assign"
    /\ traffic_history' = sliced
    /\ sliced' = <<>>
    /\ heap' = Collect(heap, sliced, current_traffic, {new_snapshot})
    /\ tick_pc' = "publish"
    /\ UNCHANGED <<max_records, next_id, current_traffic, scaler_fit,
                   detector_fit, new_snapshot, ticks, reset_pc, resets, window, obs>>
    /\ UNCHANGED reset_found
    /\ UNCHANGED <<simVars, clsVars, routeVars, anVars, loopVars, shareVars>>

\* self.current_traffic = {road['road_id']: road for road in new_snapshot}
TickPublish ==
    /\ route.status \in {"none", "weighed"}
    /\ obs = NoObs
    /\ tick_pc = "publish"
    /\ current_traffic' = IndexOf(heap, new_snapshot)
    /\ heap' = Collect(heap, traffic_history, current_traffic', {new_snapshot})
    /\ tick_pc' = "retrain"
    /\ UNCHANGED <<max_records, next_id, traffic_history, scaler_fit,
                   detector_fit, new_snapshot, sliced, ticks, reset_pc,
                   resets, window, obs>>
    /\ UNCHANGED reset_found
    /\ UNCHANGED <<simVars, clsVars, routeVars, anVars, loopVars, shareVars>>

\* _train_models up to the feature matrix: returns at once on a history
\* shorter than 10, else reads traffic_history[-50:]
TrainReads(hist) == Len(hist) >= MIN_TRAIN_HISTORY

\* if len(self.traffic_history) % 20 == 0: self._train_models()
TickRetrain ==
    /\ route.status \in {"none", "weighed"}
    /\ obs = NoObs
    /\ tick_pc = "retrain"
    /\ IF Len(traffic_history) % RETRAIN_EVERY = 0 /\ TrainReads(traffic_history)
       THEN /\ window' = [window EXCEPT !["tick"] =
                             LastN(traffic_history, TRAIN_WINDOW)]
            /\ tick_pc' = "fit_scaler"
            /\ UNCHANGED <<new_snapshot, heap>>
       ELSE /\ window' = window
            /\ tick_pc' = "idle"
            /\ new_snapshot' = 0
            /\ heap' = Collect(heap, traffic_history, current_traffic, {})
    /\ UNCHANGED <<max_records, next_id, traffic_history, current_traffic,
                   scaler_fit, detector_fit, sliced, ticks, reset_pc, resets, obs>>
    /\ UNCHANGED reset_found
    /\ UNCHANGED <<simVars, clsVars, routeVars, anVars, loopVars, shareVars>>

\* features_scaled = self.scaler.fit_transform(features_array)
TickFitScaler ==
    /\ route.status \in {"none", "weighed"}
    /\ obs = NoObs
    /\ tick_pc = "fit_scaler"
    /\ scaler_fit' = window["tick"]
    /\ tick_pc' = "fit_detector"
    /\ UNCHANGED <<max_records, heap, next_id, traffic_history,
                   current_traffic, detector_fit, new_snapshot, sliced, ticks,
                   reset_pc, resets, window, obs>>
    /\ UNCHANGED reset_found
    /\ UNCHANGED <<simVars, clsVars, routeVars, anVars, loopVars, shareVars>>

\* self.anomaly_detector.fit(features_scaled); the call returns
TickFitDetector ==
    /\ route.status \in {"none", "weighed"}
    /\ obs = NoObs
    /\ tick_pc = "fit_detector"
    /\ detector_fit' = window["tick"]
    /\ window' = [window EXCEPT !["tick"] = <<>>]
    /\ tick_pc' = "idle"
    /\ new_snapshot' = 0
    /\ heap' = Collect(heap, traffic_history, current_traffic, {})
    /\ UNCHANGED <<max_records, next_id, traffic_history, current_traffic,
                   scaler_fit, sliced, ticks, reset_pc, resets, obs>>
    /\ UNCHANGED reset_found
    /\ UNCHANGED <<simVars, clsVars, routeVars, anVars, loopVars, shareVars>>

(***************************************************************************)
(* reset_simulation, run by the request thread of POST /reset              *)
(***************************************************************************)
\* self.traffic_history = []
ResetClearHistory ==
    /\ obs = NoObs
    /\ reset_pc = "idle"
    /\ resets < MaxResets
    /\ resets' = resets + 1
    /\ traffic_history' = <<>>
    /\ heap' = Collect(heap, <<>>, current_traffic,
                       {new_snapshot} \cup Range(sliced))
    /\ reset_pc' = "clear_index"
    /\ UNCHANGED <<max_records, next_id, current_traffic, scaler_fit,
                   detector_fit, tick_pc, new_snapshot, sliced, ticks,
                   window, obs>>
    /\ reset_found' = Range(traffic_history)
    /\ UNCHANGED <<simVars, clsVars, routeVars, anVars, loopVars, shareVars>>

\* self.current_traffic = {}
ResetClearIndex ==
    /\ obs = NoObs
    /\ reset_pc = "clear_index"
    /\ current_traffic' = EmptyIndex
    /\ heap' = Collect(heap, traffic_history, EmptyIndex,
                       {new_snapshot} \cup Range(sliced))
    /\ reset_pc' = "fill"
    /\ UNCHANGED <<max_records, next_id, traffic_history, scaler_fit,
                   detector_fit, tick_pc, new_snapshot, sliced, ticks, resets,
                   window, obs>>
    /\ UNCHANGED reset_found
    /\ UNCHANGED <<simVars, clsVars, routeVars, anVars, loopVars, shareVars>>

ResetFill ==
    /\ obs = NoObs
    /\ reset_pc = "fill"
    /\ heap' = [id \in DOMAIN heap \cup Range(FillIds(next_id)) |->
                   IF id >= next_id THEN 1 ELSE heap[id]]
    /\ next_id' = next_id + INITIAL_FILL
    /\ traffic_history' = traffic_history \o FillIds(next_id)
    /\ reset_pc' = "train"
    /\ UNCHANGED <<max_records, current_traffic, scaler_fit, detector_fit,
                   tick_pc, new_snapshot, sliced, ticks, resets, window, obs>>
    /\ UNCHANGED reset_found
    /\ UNCHANGED <<simVars, clsVars, routeVars, anVars, loopVars, shareVars>>

\* self._train_models() up to the feature matrix
ResetTrain ==
    /\ obs = NoObs
    /\ reset_pc = "train"
    /\ IF TrainReads(traffic_history)
       THEN /\ window' = [window EXCEPT !["reset"] =
                             LastN(traffic_history, TRAIN_WINDOW)]
            /\ reset_pc' = "fit_scaler"
       ELSE /\ window' = window
            /\ reset_pc' = "idle"
    /\ UNCHANGED <<max_records, heap, next_id, traffic_history,
                   current_traffic, scaler_fit, detector_fit, tick_pc,
                   new_snapshot, sliced, ticks, resets, obs>>
    /\ UNCHANGED reset_found
    /\ UNCHANGED <<simVars, clsVars, routeVars, anVars, loopVars, shareVars>>

ResetFitScaler ==
    /\ obs = NoObs
    /\ reset_pc = "fit_scaler"
    /\ scaler_fit' = window["reset"]
    /\ reset_pc' = "fit_detector"
    /\ UNCHANGED <<max_records, heap, next_id, traffic_history,
                   current_traffic, detector_fit, tick_pc, new_snapshot,
                   sliced, ticks, resets, window, obs>>
    /\ UNCHANGED reset_found
    /\ UNCHANGED <<simVars, clsVars, routeVars, anVars, loopVars, shareVars>>

ResetFitDetector ==
    /\ obs = NoObs
    /\ reset_pc = "fit_detector"
    /\ detector_fit' = window["reset"]
    /\ window' = [window EXCEPT !["reset"] = <<>>]
    /\ reset_pc' = "idle"
    /\ UNCHANGED <<max_records, heap, next_id, traffic_history,
                   current_traffic, scaler_fit, tick_pc, new_snapshot, sliced,
                   ticks, resets, obs>>
    /\ UNCHANGED reset_found
    /\ UNCHANGED <<simVars, clsVars, routeVars, anVars, loopVars, shareVars>>

(***************************************************************************)
(* A read request, served on its own thread at any moment: get_ml_status   *)
(* (data_status reads traffic_history and current_traffic) and             *)
(* detect_anomalies (reads traffic_history, then self.scaler and           *)
(* self.anomaly_detector as the training left them).                       *)
(***************************************************************************)
Observation ==
    [hist_last   |-> IF traffic_history = <<>> THEN 0 ELSE Last(traffic_history),
     indexed     |-> IndexedSnapshots(current_traffic),
     hist_len    |-> Len(traffic_history),
     during_tick |-> tick_pc # "idle",
     scaler      |-> scaler_fit,
     detector    |-> detector_fit]

Read ==
    /\ obs = NoObs
    /\ obs' = Observation
    /\ UNCHANGED <<max_records, heap, next_id, traffic_history,
                   current_traffic, scaler_fit, detector_fit, tick_pc,
                   new_snapshot, sliced, ticks, reset_pc, resets,
                   window>>
    /\ UNCHANGED reset_found
    /\ UNCHANGED <<simVars, clsVars, routeVars, anVars, loopVars, shareVars>>

\* the request returns its payload to the client
ReadReturn ==
    /\ obs # NoObs
    /\ obs' = NoObs
    /\ UNCHANGED <<max_records, heap, next_id, traffic_history,
                   current_traffic, scaler_fit, detector_fit, tick_pc,
                   new_snapshot, sliced, ticks, reset_pc, resets,
                   window>>
    /\ UNCHANGED reset_found
    /\ UNCHANGED <<simVars, clsVars, routeVars, anVars, loopVars, shareVars>>

(***************************************************************************)
(* Route optimizer: _find_nearest_node, _update_graph_weights,             *)
(* get_optimized_route                                                     *)
(***************************************************************************)
\* Values of ROUTE_WEIGHT_FACTOR explored, in tenths (20 is the default 2.0)
WeightFactors10 == {5, 20}

\* get_available_locations
AvailableLocations ==
    {"A", "B", "C", "D", "Main Street", "Broadway", "Park Avenue",
     "5th Avenue", "Madison Ave"}

\* Identifiers a request can carry: the known ones and an unknown one
Locations == AvailableLocations \cup {"Elm Street"}

\* A mapping that swaps the two offsets of D
LocationMappingSwapped ==
    [name \in AvailableLocations |->
        CASE name = "A"           -> NodeKey(<<0, 0>>)
          [] name = "B"           -> NodeKey(<<5, 5>>)
          [] name = "C"           -> NodeKey(<<2, 2>>)
          [] name = "D"           -> NodeKey(<<6, 4>>)
          [] name = "Main Street" -> NodeKey(<<0, 0>>)
          [] name = "Broadway"    -> NodeKey(<<1, 1>>)
          [] name = "Park Avenue" -> NodeKey(<<2, 2>>)
          [] name = "5th Avenue"  -> NodeKey(<<3, 3>>)
          [] OTHER                -> NodeKey(<<4, 4>>)]

\* location_mapping of _find_nearest_node
location_mapping ==
    [name \in AvailableLocations |->
        CASE name = "A"           -> NodeKey(<<0, 0>>)
          [] name = "B"           -> NodeKey(<<5, 5>>)
          [] name = "C"           -> NodeKey(<<2, 2>>)
          [] name = "D"           -> NodeKey(<<4, 6>>)
          [] name = "Main Street" -> NodeKey(<<0, 0>>)
          [] name = "Broadway"    -> NodeKey(<<1, 1>>)
          [] name = "Park Avenue" -> NodeKey(<<2, 2>>)
          [] name = "5th Avenue"  -> NodeKey(<<3, 3>>)
          [] OTHER                -> NodeKey(<<4, 4>>)]

\* list(self.graph.nodes())[0]: the nodes were inserted in the iteration
\* order of a set of strings, which differs from one process to the next.
FirstNodes == {NodeKey(<<3, 5>>), NodeKey(<<0, 4>>)}

NoNode == <<-1, -1>>

\* An edge without the congestion_weight attribute
Unset == -1

\* A resolution without the fallback to the first node
FindNearestNodeNoFallback(location_name, first) ==
    IF location_name \in DOMAIN location_mapping
    THEN location_mapping[location_name]
    ELSE NoNode

_find_nearest_node(location_name, first) ==
    IF location_name \in DOMAIN location_mapping
    THEN location_mapping[location_name]
    ELSE IF Nodes # {} THEN first
    ELSE NoNode

\* The RoadState dict a reference points to
RoadAt(h, ref) == SnapshotRoads(h, ref[1])[ref[2]]

\* congestion_score of a road in the index, 0 when the road is absent
CurrentScore(h, ct, road_id) ==
    IF road_id \in DOMAIN ct THEN RoadAt(h, ct[road_id]).congestion_score
    ELSE 0

\* A weight that takes the score as a fraction already (no division by 100)
EdgeWeightNoPercent(distance, score, wf10) ==
    distance * (1000 + score * wf10)

\* base_weight * congestion_multiplier with base_weight = distance / 1000 and
\* congestion_multiplier = 1 + (congestion_score / 100) * weight_factor, the
\* multiplier kept to 3 decimals: the result is in units of 1e-6 km
EdgeWeight(distance, score, wf10) ==
    distance * (1000 + RoundDiv(score * wf10, 100))

\* A weight refresh that keeps a weight already on the edge
StaleWeights(W, h, ct, wf10) ==
    [e \in Edges |->
        IF W[e] # Unset THEN W[e]
        ELSE IF EDGE_ROAD[e].id \in DOMAIN ct
        THEN EdgeWeight(DISTANCE[e], CurrentScore(h, ct, EDGE_ROAD[e].id), wf10)
        ELSE EdgeWeight(DISTANCE[e], 0, 0)]

\* _update_graph_weights: every edge gets a new congestion_weight
UpdateGraphWeights(W, h, ct, wf10) ==
    [e \in Edges |->
        IF EDGE_ROAD[e].id \in DOMAIN ct
        THEN EdgeWeight(DISTANCE[e], CurrentScore(h, ct, EDGE_ROAD[e].id), wf10)
        ELSE EdgeWeight(DISTANCE[e], 0, 0)]

\* nx.shortest_path(G, source, target, weight='congestion_weight'): Dijkstra.
\* dist and pred are defined on the nodes reached so far, done is the set of
\* settled nodes; the search stops when the target is settled.
RECURSIVE DijkstraLoop(_, _, _, _, _)
DijkstraLoop(W, target, dist, pred, done) ==
    LET fringe == DOMAIN dist \ done
    IN  IF fringe = {} THEN pred
        ELSE LET u == CHOOSE n \in fringe :
                          \A m \in fringe : dist[n] <= dist[m]
                 better == {v \in ADJ[u] \ done :
                               \/ v \notin DOMAIN dist
                               \/ dist[u] + W[{u, v}] < dist[v]}
                 dist2 == [v \in DOMAIN dist \cup better |->
                              IF v \in better THEN dist[u] + W[{u, v}]
                              ELSE dist[v]]
                 pred2 == [v \in DOMAIN dist \cup better |->
                              IF v \in better THEN u ELSE pred[v]]
             IN  IF u = target THEN pred
                 ELSE DijkstraLoop(W, target, dist2, pred2, done \cup {u})

\* A path read off the predecessors without reversing it: target first
RECURSIVE PathFromTarget(_, _, _)
PathFromTarget(pred, source, n) ==
    IF n = source THEN <<source>>
    ELSE <<n>> \o PathFromTarget(pred, source, pred[n])

\* The path to n along the predecessors found by the search, source first
RECURSIVE PathFrom(_, _, _)
PathFrom(pred, source, n) ==
    IF n = source THEN <<source>>
    ELSE Append(PathFrom(pred, source, pred[n]), n)

\* The path as a sequence of nodes; <<>> stands for NetworkXNoPath
shortest_path(W, source, target) ==
    IF source = target THEN <<source>>
    ELSE LET pred == DijkstraLoop(W, target,
                        [n \in {source} |-> 0], [n \in {source} |-> source], {})
         IN  IF target \notin DOMAIN pred THEN <<>>
             ELSE PathFrom(pred, source, target)

\* A segment whose estimated_time is the weight itself, not weight * 60
SegmentNoSeconds(W, h, ct, from, to) ==
    LET e == {from, to}
    IN  [from |-> from, to |-> to,
         road_name |-> EDGE_ROAD[e].name,
         road_id |-> EDGE_ROAD[e].id,
         distance |-> DISTANCE[e],
         congestion_score |-> CurrentScore(h, ct, EDGE_ROAD[e].id),
         estimated_time |-> W[e]]

\* One entry of route_details: the edge path[i] -- path[i + 1]
Segment(W, h, ct, from, to) ==
    LET e == {from, to}
    IN  [from |-> from, to |-> to,
         road_name |-> EDGE_ROAD[e].name,
         road_id |-> EDGE_ROAD[e].id,
         distance |-> DISTANCE[e],
         congestion_score |-> CurrentScore(h, ct, EDGE_ROAD[e].id),
         estimated_time |-> W[e] * 60]

\* A walk that emits one segment too many: range(len(path))
RouteDetailsOffByOne(W, h, ct, p) ==
    [i \in 1..Len(p) |->
        IF i < Len(p) THEN Segment(W, h, ct, p[i], p[i + 1])
        ELSE [from |-> p[i], to |-> p[i], road_name |-> "Unknown Road",
              road_id |-> "Unknown", distance |-> 0, congestion_score |-> 0,
              estimated_time |-> 60]]

\* for i in range(len(path) - 1): ... route_details.append(segment)
RouteDetails(W, h, ct, p) ==
    [i \in 1..(Len(p) - 1) |-> Segment(W, h, ct, p[i], p[i + 1])]

RECURSIVE SumField(_, _, _)
SumField(segments, field, n) ==
    IF n = 0 THEN 0 ELSE SumField(segments, field, n - 1) + segments[n][field]

NoRoute ==
    [status |-> "none", path |-> <<>>, route_details |-> <<>>,
     total_distance |-> 0, estimated_time |-> 0,
     start_node |-> NoNode, end_node |-> NoNode, available_locations |-> {}]

\* NetworkXNoPath leaving get_optimized_route uncaught
NoPathRaises(start_node, end_node) == [NoRoute EXCEPT !.status = "raised"]

\* except nx.NetworkXNoPath: the error with the two resolved endpoints
NoPathResult(start_node, end_node) ==
    [NoRoute EXCEPT !.status = "no_path",
                    !.start_node = start_node,
                    !.end_node = end_node]

\* The result of get_optimized_route once the weights W are on the graph.
\* estimated_time is in hundredths of a minute: round(total_time / 60, 2).
RouteResult(W, h, ct, start_node, end_node) ==
    IF start_node = NoNode \/ end_node = NoNode
    THEN [NoRoute EXCEPT !.status = "error",
                         !.available_locations = AvailableLocations]
    ELSE IF start_node \notin Nodes \/ end_node \notin Nodes
    THEN [NoRoute EXCEPT !.status = "error",
                         !.available_locations = AvailableLocations]
    ELSE LET p == shortest_path(W, start_node, end_node)
             details == RouteDetails(W, h, ct, p)
         IN  IF p = <<>>
             THEN NoPathResult(start_node, end_node)
             ELSE [status |-> "ok", path |-> p, route_details |-> details,
                   total_distance |-> SumField(details, "distance", Len(details)),
                   estimated_time |->
                       RoundDiv(SumField(details, "estimated_time", Len(details)),
                                60 * 10000),
                   start_node |-> start_node, end_node |-> end_node,
                   available_locations |-> {}]

NoQuery == [start |-> "", end |-> "", reweighted |-> FALSE]

RouteIdle ==
    /\ weight_factor10 = 20
    /\ first_node = NodeKey(<<0, 0>>)
    /\ congestion_weight = [e \in Edges |-> Unset]
    /\ query = NoQuery
    /\ route = NoRoute

RouteInit ==
    /\ weight_factor10 \in WeightFactors10
    /\ first_node \in FirstNodes
    /\ congestion_weight = [e \in Edges |-> Unset]
    /\ query = NoQuery
    /\ route = NoRoute

\* get_optimized_route(start_location, end_location), served without
\* preemption
GetOptimizedRoute ==
    /\ route = NoRoute
    /\ obs = NoObs
    /\ \E start_location \in Locations, end_location \in Locations :
          LET start_node == _find_nearest_node(start_location, first_node)
              end_node   == _find_nearest_node(end_location, first_node)
              W == IF start_node = NoNode \/ end_node = NoNode
                   THEN congestion_weight
                   ELSE UpdateGraphWeights(congestion_weight, heap,
                                           current_traffic, weight_factor10)
          IN  /\ query' = [start |-> start_location, end |-> end_location,
                            reweighted |-> \E e \in Edges :
                                congestion_weight[e] \notin {Unset, W[e]}]
              /\ congestion_weight' = W
              /\ route' = RouteResult(W, heap, current_traffic,
                                      start_node, end_node)
    /\ UNCHANGED <<weight_factor10, first_node>>
    /\ UNCHANGED <<engineVars, simVars, clsVars, anVars, loopVars, shareVars>>

\* get_optimized_route up to the end of self._update_graph_weights(): the
\* two names are resolved and every edge has its new weight
RouteReweigh ==
    /\ route = NoRoute
    /\ obs = NoObs
    /\ congestion_weight' = UpdateGraphWeights(congestion_weight, heap,
                                               current_traffic, weight_factor10)
    /\ \E start_location \in Locations, end_location \in Locations :
          /\ _find_nearest_node(start_location, first_node) # NoNode
          /\ _find_nearest_node(end_location, first_node) # NoNode
          /\ query' = [start |-> start_location, end |-> end_location,
                        reweighted |-> \E e \in Edges :
                            congestion_weight[e] \notin
                                {Unset, congestion_weight'[e]}]
    /\ route' = [NoRoute EXCEPT !.status = "weighed"]
    /\ UNCHANGED <<weight_factor10, first_node>>
    /\ UNCHANGED <<engineVars, simVars, clsVars, anVars, loopVars, shareVars>>

\* the rest of get_optimized_route: nx.shortest_path on the weights the
\* graph carries now, and the segments with the congestion_score that
\* self.current_traffic holds now
RouteSearch ==
    /\ route.status = "weighed"
    /\ obs = NoObs
    /\ route' = RouteResult(congestion_weight, heap, current_traffic,
                            _find_nearest_node(query.start, first_node),
                            _find_nearest_node(query.end, first_node))
    /\ UNCHANGED <<weight_factor10, first_node, congestion_weight, query>>
    /\ UNCHANGED <<engineVars, simVars, clsVars, anVars, loopVars, shareVars>>

\* the request returns its payload to the client
RouteReturn ==
    /\ route.status \notin {"none", "weighed"}
    /\ route' = NoRoute
    /\ query' = NoQuery
    /\ UNCHANGED <<weight_factor10, first_node, congestion_weight>>
    /\ UNCHANGED <<engineVars, simVars, clsVars, anVars, loopVars, shareVars>>

(***************************************************************************)
(* Anomaly detector: detect_anomalies                                      *)
(***************************************************************************)
\* Largest number of roads in a scored snapshot
MaxScored == 3

\* len(self.traffic_history) < 10 of detect_anomalies
MIN_DETECT_HISTORY == 10

\* Values of len(self.traffic_history) explored
HistoryLens ==
    {0, 1, MIN_DETECT_HISTORY - 1, MIN_DETECT_HISTORY, INITIAL_FILL}

\* Values of decision_function explored, in hundredths, around the severity
\* threshold -0.5 and the outlier boundary 0
AnomalyScores100 == {-51, -50, -1, 10}

\* What scoring one road gives: scaler.transform, decision_function or
\* predict raises, or decision_function answers a score and predict answers
\* -1 (outlier) for a negative score, 1 (inlier) otherwise
ScoringRaises == [raises |-> TRUE, anomaly_score |-> 0, prediction |-> 0]

Scored(score100) ==
    [raises |-> FALSE, anomaly_score |-> score100,
     prediction |-> IF score100 < 0 THEN -1 ELSE 1]

ScoringOutcomes == {ScoringRaises} \cup {Scored(x) : x \in AnomalyScores100}

\* A severity test that includes the threshold
SeverityInclusive(anomaly_score) ==
    IF anomaly_score <= -50 THEN "High" ELSE "Medium"

\* 'High' if anomaly_score < -0.5 else 'Medium'
Severity(anomaly_score) ==
    IF anomaly_score < -50 THEN "High" ELSE "Medium"

\* The dict appended for a road that is an anomaly
AnomalyRecord(road_id, o) ==
    [road_id |-> road_id, anomaly_score |-> o.anomaly_score,
     severity |-> Severity(o.anomaly_score)]

\* The loop over current_snapshot from road i on; found is the list built so
\* far.  An exception leaves the loop; the except clause prints and the
\* function returns the list as it stands.
RECURSIVE DetectLoop(_, _, _, _)
DetectLoop(roads, outcomes, i, found) ==
    IF i > Len(roads) THEN found
    ELSE IF outcomes[i].raises THEN found
    ELSE DetectLoop(roads, outcomes, i + 1,
                    IF outcomes[i].prediction = -1
                    THEN Append(found, AnomalyRecord(roads[i], outcomes[i]))
                    ELSE found)

\* Roads on which scoring was attempted: up to and including the first one
\* that raises
RECURSIVE ScoredRoads(_, _)
ScoredRoads(outcomes, i) ==
    IF i > Len(outcomes) THEN 0
    ELSE IF outcomes[i].raises THEN 1
    ELSE 1 + ScoredRoads(outcomes, i + 1)

\* A guard that only tests for an empty history
OnlyEmptyHistory(len) == len = 0

\* if not self.traffic_history or len(self.traffic_history) < 10
TooLittleHistory(len) == len = 0 \/ len < MIN_DETECT_HISTORY

\* The snapshots explored: the first n roads of the network
SnapshotOf(n) == [i \in 1..n |-> ROADS[i].id]

AnIdle ==
    /\ history_len = INITIAL_FILL
    /\ snapshot_roads = SnapshotOf(1)
    /\ scoring = <<>>
    /\ anomalies = <<>>
    /\ detect_pc = "none"

AnInit ==
    /\ history_len \in HistoryLens
    /\ \E n \in 1..MaxScored :
          snapshot_roads = IF history_len = 0 THEN <<>> ELSE SnapshotOf(n)
    /\ scoring = <<>>
    /\ anomalies = <<>>
    /\ detect_pc = "none"

\* detect_anomalies on a history too short to trust the model
DetectAnomaliesEmpty ==
    /\ detect_pc = "none"
    /\ TooLittleHistory(history_len)
    /\ anomalies' = <<>>
    /\ scoring' = <<>>
    /\ detect_pc' = "returned"
    /\ UNCHANGED <<history_len, snapshot_roads>>
    /\ UNCHANGED <<engineVars, simVars, clsVars, routeVars, loopVars, shareVars>>

\* detect_anomalies scoring the roads of the latest snapshot; scoring keeps
\* the answers of the roads that were scored
DetectAnomalies ==
    /\ detect_pc = "none"
    /\ ~TooLittleHistory(history_len)
    /\ \E outcomes \in [1..Len(snapshot_roads) -> ScoringOutcomes] :
          /\ anomalies' = DetectLoop(snapshot_roads, outcomes, 1, <<>>)
          /\ scoring' = SubSeq(outcomes, 1, ScoredRoads(outcomes, 1))
    /\ detect_pc' = "returned"
    /\ UNCHANGED <<history_len, snapshot_roads>>
    /\ UNCHANGED <<engineVars, simVars, clsVars, routeVars, loopVars, shareVars>>

(***************************************************************************)
(* Background update loop: update_traffic_data of start_background_services *)
(* Here a tick is one step: it returns or raises, and leaves the history   *)
(* with the length the append and the trim give it.                        *)
(***************************************************************************)
\* Values of config.AUTO_REFRESH_INTERVAL explored (5 is the default; the
\* value is int(os.getenv(...)) and is not validated)
RefreshIntervals == {-1, 0, 5}

\* len(self.traffic_history) after the append and the trim of a tick
LenAfterTick(len, capacity) ==
    IF len + 1 > capacity THEN capacity ELSE len + 1

\* if len(self.traffic_history) % 20 == 0: self._train_models(), which
\* trains on traffic_history[-50:] unless the history is shorter than 10:
\* the number of snapshots trained on, 0 when the tick does not train
WindowTrained(len) ==
    IF len % RETRAIN_EVERY = 0 /\ len >= MIN_TRAIN_HISTORY
    THEN Min(len, TRAIN_WINDOW)
    ELSE 0

\* time.sleep(secs) raises ValueError for a negative argument
SleepRaises(secs) == secs < 0

LoopIdle ==
    /\ refresh_interval = 5
    /\ loop_pc = "call"
    /\ loop_error = "none"
    /\ loop_len = INITIAL_FILL
    /\ loop_ticks = 0
    /\ loop_window = 0

LoopInit ==
    /\ refresh_interval \in RefreshIntervals
    /\ loop_pc = "call"
    /\ loop_error = "none"
    /\ loop_len = INITIAL_FILL
    /\ loop_ticks = 0
    /\ loop_window = 0

\* app.ml_system.update_traffic_simulation() returns
LoopTickReturns ==
    /\ loop_pc = "call"
    /\ loop_len' = LenAfterTick(loop_len, max_records)
    /\ loop_ticks' = (loop_ticks + 1) % RETRAIN_EVERY
    /\ loop_window' = WindowTrained(loop_len')
    /\ loop_pc' = "sleep"
    /\ UNCHANGED <<refresh_interval, loop_error>>
    /\ UNCHANGED <<engineVars, simVars, clsVars, routeVars, anVars, shareVars>>

\* update_traffic_simulation raises in _simulate_traffic_snapshot, before
\* the append
LoopTickRaisesEarly ==
    /\ loop_pc = "call"
    /\ loop_pc' = "handler"
    /\ loop_error' = "tick"
    /\ loop_window' = 0
    /\ UNCHANGED <<refresh_interval, loop_len, loop_ticks>>
    /\ UNCHANGED <<engineVars, simVars, clsVars, routeVars, anVars, shareVars>>

\* update_traffic_simulation raises in _train_models, after the append, the
\* trim and the publication
LoopTickRaisesLate ==
    /\ loop_pc = "call"
    /\ WindowTrained(LenAfterTick(loop_len, max_records)) > 0
    /\ loop_len' = LenAfterTick(loop_len, max_records)
    /\ loop_ticks' = (loop_ticks + 1) % RETRAIN_EVERY
    /\ loop_window' = 0
    /\ loop_pc' = "handler"
    /\ loop_error' = "tick"
    /\ UNCHANGED refresh_interval
    /\ UNCHANGED <<engineVars, simVars, clsVars, routeVars, anVars, shareVars>>

\* time.sleep(config.AUTO_REFRESH_INTERVAL) in the try block
LoopSleep ==
    /\ loop_pc = "sleep"
    /\ IF SleepRaises(refresh_interval)
       THEN loop_pc' = "handler" /\ loop_error' = "sleep"
       ELSE loop_pc' = "call" /\ UNCHANGED loop_error
    /\ UNCHANGED <<refresh_interval, loop_len, loop_ticks, loop_window>>
    /\ UNCHANGED <<engineVars, simVars, clsVars, routeVars, anVars, shareVars>>

\* except Exception: print(...); time.sleep(config.AUTO_REFRESH_INTERVAL * 2).
\* An exception raised here leaves the while loop and ends the thread.
LoopHandler ==
    /\ loop_pc = "handler"
    /\ loop_pc' = IF SleepRaises(refresh_interval * 2) THEN "dead" ELSE "call"
    /\ UNCHANGED <<refresh_interval, loop_error, loop_len, loop_ticks,
                   loop_window>>
    /\ UNCHANGED <<engineVars, simVars, clsVars, routeVars, anVars, shareVars>>

\* The payload of a read is local to its request, so the other threads are
\* scheduled only between reads (their guard obs = NoObs).
EngineNext ==
    \/ TickAppend
    \/ TickTrimSlice
    \/ TickTrimAssign
    \/ TickPublish
    \/ TickRetrain
    \/ TickFitScaler
    \/ TickFitDetector
    \/ ResetClearHistory
    \/ ResetClearIndex
    \/ ResetFill
    \/ ResetTrain
    \/ ResetFitScaler
    \/ ResetFitDetector
    \/ Read
    \/ ReadReturn

\* The engine as constructed with the default configuration
EngineAtRest == EngineInit /\ max_records = DEFAULT_MAX_HISTORY_RECORDS

\* The engine: background thread, reset requests and read requests
Init == EngineInit /\ SimIdle /\ ClsIdle /\ RouteIdle /\ AnIdle /\ LoopIdle /\ ShareIdle

Spec == Init /\ [][EngineNext]_vars

\* The simulator
InitSim ==
    SimInit /\ EngineAtRest /\ ClsIdle /\ RouteIdle /\ AnIdle /\ LoopIdle /\ ShareIdle

NextSim == SimulateRoadState \/ ClockAdvance

SpecSim == InitSim /\ [][NextSim]_vars

\* The classifier on the snapshots and configurations of ClsInit
InitClassify ==
    ClsInit /\ EngineAtRest /\ SimIdle /\ RouteIdle /\ AnIdle /\ LoopIdle /\ ShareIdle

NextClassify ==
    \/ GetCurrentTrafficSmall
    \/ GetCurrentTrafficRaise
    \/ GetCurrentTrafficKMeans
    \/ GetCurrentTrafficDBSCAN

SpecClassify == InitClassify /\ [][NextClassify]_vars

\* Route requests between the update ticks of the background thread
InitRoute ==
    RouteInit /\ EngineAtRest /\ SimIdle /\ ClsIdle /\ AnIdle /\ LoopIdle /\ ShareIdle

NextRoute ==
    \/ TickAppend
    \/ TickTrimSlice
    \/ TickPublish
    \/ TickRetrain
    \/ GetOptimizedRoute
    \/ RouteReturn

SpecRoute == InitRoute /\ [][NextRoute]_vars

\* Route requests that the update ticks of the background thread can
\* preempt after the weight refresh
NextRouteRace ==
    \/ TickAppend
    \/ TickTrimSlice
    \/ TickPublish
    \/ TickRetrain
    \/ RouteReweigh
    \/ RouteSearch
    \/ RouteReturn

SpecRouteRace == InitRoute /\ [][NextRouteRace]_vars

\* Concurrent GET /traffic requests on one engine, with ticks in between
InitShared ==
    ShareInit /\ EngineAtRest /\ SimIdle /\ ClsIdle /\ RouteIdle /\ AnIdle
        /\ LoopIdle

NextShared ==
    \/ \E t \in Threads : CallFitPredict(t)
    \/ \E t \in Threads : CallLabel(t)
    \/ \E t \in Threads : CallReturn(t)
    \/ NewLatest

SpecShared == InitShared /\ [][NextShared]_vars

\* detect_anomalies on the histories, snapshots and answers of AnInit
InitAnomaly ==
    AnInit /\ EngineAtRest /\ SimIdle /\ ClsIdle /\ RouteIdle /\ LoopIdle /\ ShareIdle

NextAnomaly == DetectAnomaliesEmpty \/ DetectAnomalies

SpecAnomaly == InitAnomaly /\ [][NextAnomaly]_vars

\* The background loop for every capacity of Capacities.  The thread is
\* scheduled again and again, a tick ends (it returns or raises) and a sleep
\* that does not raise returns: weak fairness of the loop's steps.
InitLoop ==
    LoopInit /\ EngineInit /\ SimIdle /\ ClsIdle /\ RouteIdle /\ AnIdle /\ ShareIdle

NextLoop ==
    \/ LoopTickReturns
    \/ LoopTickRaisesEarly
    \/ LoopTickRaisesLate
    \/ LoopSleep
    \/ LoopHandler

SpecLoop == InitLoop /\ [][NextLoop]_vars /\ WF_vars(NextLoop)

(***************************************************************************)
(* Properties of the engine                                                *)
(***************************************************************************)
\* No update tick and no reset is in progress
Quiescent == tick_pc = "idle" /\ reset_pc = "idle"

\* Snapshots ever appended to the history (identities are given in the
\* order of production)
TotalAppended == next_id - 1

\* C1: for every capacity N >= 1, whenever no operation is in progress the
\* history holds at most N = MAX_HISTORY_RECORDS snapshots.
C1_HistoryWithinCapacity ==
    Quiescent => Len(traffic_history) <= max_records

\* The last n of all snapshots produced so far, oldest first
LastAppended(n) == [i \in 1..n |-> TotalAppended - n + i]

C2_Suffix ==
    (resets = 0 /\ tick_pc = "idle" /\ ticks >= 1)
        => traffic_history = LastAppended(Min(max_records, TotalAppended))

C2_Step ==
    /\ (tick_pc = "idle" /\ tick_pc' = "trim")
          => /\ Len(traffic_history') = Len(traffic_history) + 1
             /\ SubSeq(traffic_history', 1, Len(traffic_history))
                   = traffic_history
             /\ Last(traffic_history') = new_snapshot'
             /\ new_snapshot' \notin Range(traffic_history)
    /\ (tick_pc = "trim" /\ tick_pc' = "publish")
          => /\ Len(traffic_history) <= max_records
             /\ traffic_history' = traffic_history
    /\ (tick_pc = "assign" /\ tick_pc' = "publish" /\ resets = 0
            /\ Len(traffic_history) = max_records + 1)
          => traffic_history' = Tail(traffic_history)

\* C2: eviction is FIFO.  A tick appends the new snapshot last; when the
\* history then exceeds the capacity N by one (it held N before) exactly the
\* oldest snapshot is dropped and the order of the others is kept; so after
\* any sequence of one or more ticks the history is the last min(N, total)
\* snapshots ever appended, in production order.
C2_FifoEviction == [](C2_Suffix) /\ [][C2_Step]_vars

\* C2 witness: with capacity N >= 100 a tick has found the history full and
\* evicted snapshot 1, the oldest.
C2_Witness ==
    /\ resets = 0 /\ tick_pc = "idle" /\ ticks >= 1
    /\ max_records >= INITIAL_FILL
    /\ Len(traffic_history) = max_records
    /\ traffic_history[1] = 2
    /\ Last(traffic_history) = TotalAppended

\* C3: whenever no operation is in progress and the history is non-empty,
\* current_traffic maps exactly the road ids of the last snapshot to that
\* snapshot's RoadState records.
C3_IndexReflectsLatest ==
    (Quiescent /\ traffic_history # <<>>)
        => current_traffic = IndexOf(heap, Last(traffic_history))

\* C4: a read served while an update tick is in progress never sees a
\* current_traffic built from a snapshot other than the last one of
\* traffic_history.
C4_AtomicPublication ==
    (obs # NoObs /\ obs.during_tick /\ obs.hist_len > 0 /\ obs.indexed # {})
        => obs.indexed = {obs.hist_last}

\* C18: no read observes a traffic_history of fewer than the 100 snapshots
\* of the initial fill, reads served while reset_simulation runs included.
C18_ReadsSeeFullFill ==
    obs # NoObs => obs.hist_len >= INITIAL_FILL

\* A reset_simulation call returns in this step
ResetCompletes == reset_pc # "idle" /\ reset_pc' = "idle"

\* What C19 states of the state a reset_simulation call leaves
ResetLeavesFreshHistory ==
    ResetCompletes
        => /\ Len(traffic_history') = INITIAL_FILL
           /\ Range(traffic_history') \cap reset_found = {}
           /\ detector_fit' = LastN(traffic_history', TRAIN_WINDOW)

\* C19: when reset_simulation completes, from any reachable state,
\* traffic_history holds exactly 100 snapshots, none of which was in the
\* history before the reset, and the anomaly model was last fitted on the
\* last 50 of them.
C19_ResetRegenerates == [][ResetLeavesFreshHistory]_vars

\* detect_anomalies got past its check of the history length
DetectScores == obs # NoObs /\ obs.hist_len >= MIN_DETECT_HISTORY

\* C27: detect_anomalies scores with a scaler and an outlier model fitted
\* together on one training window, also when it runs during a retraining
\* of an update tick or of reset_simulation.
C27_ScalerAndModelFittedTogether ==
    DetectScores => obs.scaler = obs.detector

\* C30: when detect_anomalies gets past its check of the history length
\* (10 snapshots or more), the scaler and the outlier model have been fitted
\* at least once, after construction, update ticks and resets, for every
\* capacity.
C30_FittedBeforeScoring ==
    DetectScores => obs.scaler # <<>> /\ obs.detector # <<>>

\* C30 witness: detect_anomalies scores during a reset that has refilled
\* the history and not yet retrained, after a tick has trimmed the history
\* to a capacity of 1 snapshot.
C30_Witness ==
    /\ DetectScores
    /\ max_records = 1
    /\ ticks >= 1
    /\ reset_pc = "train"

\* The same for a reset that no update tick precedes or overlaps
ResetAloneRegenerates ==
    [][(ticks' = 0) => ResetLeavesFreshHistory]_vars

(***************************************************************************)
(* Properties of the simulator                                             *)
(***************************************************************************)
\* C5: every RoadState the simulator produces, for every hour, weekday,
\* speed >= 0 and outcome of the random draws, has vehicle_count >= 0 and
\* 0 <= congestion_score <= 100.
C5_RoadStateInRange ==
    road_state # NoRoadState
        => /\ road_state.vehicle_count >= 0
           /\ road_state.congestion_score >= 0
           /\ road_state.congestion_score <= 10000

\* C5 witness: a road above its capacity whose score was clamped to 100.
C5_Witness ==
    /\ road_state # NoRoadState
    /\ road_state.vehicle_count > max_capacity(road_state.road_type)
    /\ road_state.congestion_score = 10000

\* The multiplier the hour of the day gives, in tenths, as a table
HourTable10(hour) ==
    CASE hour \in (7..9) \cup (17..19)  -> 25
      [] hour \in (22..23) \cup (0..6)  -> 3
      [] hour \in 10..16                -> 12
      [] hour \in 20..21                -> 10

\* C25: for every hour 0..23 the time multiplier is 2.5 in 7..9 and 17..19,
\* 0.3 from 22 to 6, 1.2 in 10..16 and 1.0 in 20..21; on Saturday and Sunday
\* it is multiplied by 0.7, and always by the configured simulation speed.
C25_TimeMultiplier ==
    rush_hour_multiplier1000(now_hour, now_weekday, simulation_speed10)
        = HourTable10(now_hour)
            * (IF now_weekday \in {5, 6} THEN 7 ELSE 10)
            * simulation_speed10

\* a road simulated on a Sunday at 20:00 with a speed other than 1.0
C25_Witness ==
    /\ road_state # NoRoadState
    /\ now_hour = 20
    /\ now_weekday = 6
    /\ simulation_speed10 = 5

(***************************************************************************)
(* Properties of the classifier                                            *)
(***************************************************************************)
\* C6: when get_current_traffic returns on a non-empty history, every road
\* of the returned snapshot has a congestion_level among Low, Medium, High,
\* on every branch and for every configured n_clusters.
C6_LevelsOnly ==
    (branch # "none" /\ latest # <<>>)
        => \A i \in DOMAIN latest :
              latest[i].congestion_level \in Range(LEVELS)

\* C6 witness: a KMeans model with 4 clusters fitted 4 roads, the mapping
\* raised and the roads were labelled by the except branch.
C6_Witness ==
    /\ branch = "error"
    /\ clustering.algorithm = "kmeans"
    /\ clustering.n_clusters = 4
    /\ ~fit.raised
    /\ \A i \in DOMAIN latest : latest[i].congestion_level \in Range(LEVELS)

\* Clusters that come before cluster c when the centres are ranked
\* ascending, equal centres in cluster-index order
Before(centers, c) ==
    {d \in 0..(Len(centers) - 1) :
        \/ centers[d + 1] < centers[c + 1]
        \/ (centers[d + 1] = centers[c + 1] /\ d < c)}

\* C7: on the clustering branch with 3 clusters the cluster with the
\* smallest centre is Low, the middle one Medium, the largest High, equal
\* centres keep their cluster-index order, and every road carries the label
\* and the index of the cluster it was assigned to.
C7_LabelsFollowCentroidRank ==
    (branch = "clustered" /\ clustering.n_clusters = 3)
        => \A i \in DOMAIN latest :
              /\ latest[i].cluster_id = fit.clusters[i]
              /\ latest[i].congestion_level =
                    LEVELS[Cardinality(Before(fit.centers, fit.clusters[i])) + 1]

\* C7 witness: clusters 0 and 1 have equal centres above the centre of
\* cluster 2, and all three clusters have roads.
C7_Witness ==
    /\ branch = "clustered"
    /\ clustering.n_clusters = 3
    /\ fit.centers[1] = fit.centers[2]
    /\ fit.centers[3] < fit.centers[1]
    /\ {fit.clusters[i] : i \in DOMAIN fit.clusters} = {0, 1, 2}

\* score < 30 -> Low, < 70 -> Medium, else High
ThresholdLevel(score) ==
    IF score < 3000 THEN "Low" ELSE IF score < 7000 THEN "Medium" ELSE "High"

ThresholdLabelled(snapshot) ==
    \A i \in DOMAIN snapshot :
        /\ snapshot[i].congestion_level =
              ThresholdLevel(snapshot[i].congestion_score)
        /\ snapshot[i].cluster_id = 0

\* C8: on a snapshot of 3 or fewer roads get_current_traffic does not call
\* the clustering step and labels every road by the fixed thresholds with
\* cluster_id 0; on a larger snapshot whose clustering step raises every road
\* gets the same threshold labels with cluster_id 0.
C8_ThresholdFallback ==
    /\ (branch # "none" /\ Len(latest) <= 3)
          => (~fit.called /\ ThresholdLabelled(latest))
    /\ (branch # "none" /\ Len(latest) > 3 /\ fit.raised)
          => ThresholdLabelled(latest)

\* C8 witness: a snapshot of 3 roads with scores on both sides of the two
\* thresholds was labelled without a clustering call.
C8_Witness ==
    /\ branch = "small"
    /\ Len(latest) = 3
    /\ {latest[i].congestion_score : i \in DOMAIN latest} = ScoreValues

\* The labels a call assigns when clusters and centres are those of its own
\* fit_predict
OwnFitLabels(no) ==
    Classified(SharedSnapshot(no),
               KMeansFit(SharedSnapshot(no), numbering[no]))

\* C28: when several get_current_traffic calls run at once, on the same or
\* on different latest snapshots, the labels each call assigns come from the
\* cluster assignments and the centres of one and the same fit.
C28_LabelsFromOneFit ==
    \A t \in Threads :
        calls[t].pc = "returned"
            => calls[t].result = OwnFitLabels(calls[t].snapshot)

\* C21: a snapshot is immutable once it is in traffic_history: no operation,
\* get_current_traffic included, changes a field of one of its RoadState
\* records.
C21_SnapshotImmutable == [][latest' = latest]_vars

\* C29: for a given latest snapshot get_traffic_stats returns the same
\* congestion_distribution whether or not get_current_traffic was called on
\* the snapshot before.
C29_StatsIndependentOfClassification ==
    [][congestion_distribution(latest') = congestion_distribution(latest)]_vars

\* The distribution always sums to the number of roads of the snapshot
DistributionSumsToTotal ==
    LET d == congestion_distribution(latest)
    IN  d["Low"] + d["Medium"] + d["High"] = Len(latest)

(***************************************************************************)
(* Properties of the route optimizer                                       *)
(***************************************************************************)
\* C9: get_optimized_route(X, X) succeeds with a path of one node, no
\* segments, total_distance 0 and estimated_time 0, for every identifier X
\* and every traffic state.
C9_SameEndpoints ==
    (route # NoRoute /\ query.start = query.end)
        => /\ route.status = "ok"
           /\ Len(route.path) = 1
           /\ route.route_details = <<>>
           /\ route.total_distance = 0
           /\ route.estimated_time = 0

\* C9 witness: the unknown identifier was routed to itself while the index
\* held a snapshot.
C9_Witness ==
    /\ route.status = "ok"
    /\ query.start = "Elm Street"
    /\ query.end = "Elm Street"
    /\ current_traffic # EmptyIndex

\* The answer of a call made on a graph whose edges carry no weight yet
FreshAnswer(start_location, end_location) ==
    LET start_node == _find_nearest_node(start_location, first_node)
        end_node   == _find_nearest_node(end_location, first_node)
        W == UpdateGraphWeights([e \in Edges |-> Unset], heap,
                                current_traffic, weight_factor10)
    IN  RouteResult(W, heap, current_traffic, start_node, end_node)

\* C10: the answer of get_optimized_route depends only on start, end, the
\* current_traffic index and weight_factor: it is the answer a freshly built
\* graph gives, whatever weights earlier queries left on the edges.
C10_RouteDeterministic ==
    route # NoRoute => route = FreshAnswer(query.start, query.end)

\* C10 witness: a request found weights computed from another snapshot on the
\* graph and was answered with a route of several segments.
C10_Witness ==
    /\ route.status = "ok"
    /\ query.reweighted
    /\ Len(route.route_details) >= 3

\* The weights _update_graph_weights computes from the index in this state
CurrentWeights ==
    [e \in Edges |->
        EdgeWeight(DISTANCE[e],
                   CurrentScore(heap, current_traffic, EDGE_ROAD[e].id),
                   weight_factor10)]

\* Every simple path of the graph from the last node of p to target, as an
\* extension of p
RECURSIVE SimplePaths(_, _)
SimplePaths(p, target) ==
    IF Last(p) = target THEN {p}
    ELSE UNION {SimplePaths(Append(p, v), target) :
                    v \in {m \in Nodes : {Last(p), m} \in Edges} \ Range(p)}

\* Total weight of a path under the weights W
RECURSIVE PathWeight(_, _, _)
PathWeight(W, p, n) ==
    IF n <= 1 THEN 0 ELSE PathWeight(W, p, n - 1) + W[{p[n - 1], p[n]}]

\* C11: a successful get_optimized_route returns a path that starts at the
\* resolved start node, ends at the resolved end node, goes along edges of the
\* graph, and whose total congestion_weight, under the weights computed from
\* the current traffic index, is no larger than that of any other path
\* between the two nodes.
C11_PathIsShortest ==
    route.status = "ok"
        => LET s == _find_nearest_node(query.start, first_node)
               t == _find_nearest_node(query.end, first_node)
               p == route.path
           IN  /\ p # <<>>
               /\ p[1] = s
               /\ Last(p) = t
               /\ \A i \in 1..(Len(p) - 1) : {p[i], p[i + 1]} \in Edges
               /\ congestion_weight = CurrentWeights
               /\ \A q \in SimplePaths(<<s>>, t) :
                     PathWeight(CurrentWeights, p, Len(p))
                        <= PathWeight(CurrentWeights, q, Len(q))

\* C11 witness: a route of at least four nodes between two different nodes
\* was found while the index held a snapshot.
C11_Witness ==
    /\ route.status = "ok"
    /\ Len(route.path) >= 4
    /\ route.path[1] # Last(route.path)
    /\ current_traffic # EmptyIndex

\* Sum of the static distances of the edges of a path
RECURSIVE PathDistance(_, _)
PathDistance(p, n) ==
    IF n <= 1 THEN 0 ELSE PathDistance(p, n - 1) + DISTANCE[{p[n - 1], p[n]}]

\* C12: a successful get_optimized_route has one segment per edge of the
\* path, in path order; total_distance is the sum of the distances of those
\* edges and estimated_time, in minutes, is the sum of their congestion
\* weights (each segment's time is its weight * 60 seconds, the total is
\* divided by 60).  Edges of 1000 m at congestion 50 and 2000 m at congestion
\* 0 with weight_factor 2 weigh 2.0 each and give 4.00 minutes.
C12_RouteTotals ==
    /\ route.status = "ok"
          => LET p == route.path
                 d == route.route_details
             IN  /\ Len(d) = Len(p) - 1
                 /\ \A i \in 1..Len(d) :
                       /\ d[i].from = p[i]
                       /\ d[i].to = p[i + 1]
                       /\ d[i].road_id = EDGE_ROAD[{p[i], p[i + 1]}].id
                       /\ d[i].distance = DISTANCE[{p[i], p[i + 1]}]
                       /\ d[i].estimated_time = 60 * CurrentWeights[{p[i], p[i + 1]}]
                 /\ route.total_distance = PathDistance(p, Len(p))
                 /\ route.estimated_time =
                       RoundDiv(PathWeight(CurrentWeights, p, Len(p)), 10000)
    /\ EdgeWeight(1000, 5000, 20) = 2000000
    /\ EdgeWeight(2000, 0, 20) = 2000000
    /\ RoundDiv(EdgeWeight(1000, 5000, 20) + EdgeWeight(2000, 0, 20), 10000) = 400

\* C12 witness: a route of two or more segments over roads of different
\* congestion, with a positive estimated_time.
C12_Witness ==
    /\ route.status = "ok"
    /\ Len(route.route_details) >= 2
    /\ route.route_details[1].congestion_score
          # route.route_details[2].congestion_score
    /\ route.estimated_time > 0

\* C16: get_optimized_route always returns, for every pair of identifiers
\* and every traffic state: a success result, or the no-path error with both
\* resolved endpoints, or an error with the list of available locations.
C16_RouteAlwaysAnswers ==
    route # NoRoute
        => \/ /\ route.status = "ok"
              /\ route.path # <<>>
           \/ /\ route.status = "no_path"
              /\ route.start_node = _find_nearest_node(query.start, first_node)
              /\ route.end_node = _find_nearest_node(query.end, first_node)
              /\ route.start_node # NoNode
              /\ route.end_node # NoNode
           \/ /\ route.status = "error"
              /\ route.available_locations = AvailableLocations

\* C16 witness: a request between nodes of two components was answered with
\* the no-path error.
C16_Witness ==
    /\ route.status = "no_path"
    /\ query.start = "Elm Street"
    /\ query.end = "B"

Reweighted == route # NoRoute /\ route.status # "error"

\* C23: after _update_graph_weights every edge weighs distance x (1 +
\* (congestion_score / 100) x weight_factor), the score being the one
\* current_traffic holds for the edge's road, and weighs its distance when
\* the road is absent from current_traffic; with the default factor 2.0 a
\* weight is strictly positive and between 1x and 3x the distance.
C23_WeightFormula ==
    Reweighted =>
        \A e \in Edges :
            LET road_id == EDGE_ROAD[e].id
                w == congestion_weight[e]
            IN  /\ road_id \in DOMAIN current_traffic
                      => w = DISTANCE[e] * 1000
                             + DISTANCE[e]
                                 * RoundDiv(RoadAt(heap, current_traffic[road_id])
                                                .congestion_score
                                              * weight_factor10, 100)
                /\ road_id \notin DOMAIN current_traffic
                      => w = DISTANCE[e] * 1000
                /\ weight_factor10 = 20
                      => /\ w > 0
                         /\ DISTANCE[e] * 1000 <= w
                         /\ w <= DISTANCE[e] * 3000

\* C23 witness: with the default factor, after a rush-hour tick, a route
\* was found over edges that weigh three times their distance.
C23_Witness ==
    /\ Reweighted
    /\ route.status = "ok"
    /\ weight_factor10 = 20
    /\ current_traffic # EmptyIndex
    /\ \E e \in Edges : congestion_weight[e] = DISTANCE[e] * 3000

\* C24: on the graph of the engine (which has nodes) _find_nearest_node
\* returns a node of the graph for every identifier, in the lookup table or
\* not, and get_optimized_route never answers with the resolution error.
C24_ResolutionNeverFails ==
    /\ Nodes # {}
    /\ \A name \in Locations : _find_nearest_node(name, first_node) \in Nodes
    /\ route # NoRoute => route.status # "error"

\* C24 witness: a route from an unknown identifier was answered.
C24_Witness ==
    /\ query.start \notin AvailableLocations
    /\ query.end \in AvailableLocations
    /\ route.status = "ok"
    /\ route.path[1] = first_node

\* The traffic indexes self.current_traffic has held: the empty one of the
\* construction and the ones the ticks published
PublishedIndexes ==
    {EmptyIndex}
        \cup {IndexOf(heap, id) : id \in {i \in DOMAIN heap : i > INITIAL_FILL}}

\* C26: within one get_optimized_route call the weights the shortest path
\* was computed on and the congestion_score reported for every segment come
\* from one single traffic index, also when update ticks interleave with
\* the call.
C26_RouteUsesOneIndex ==
    route.status = "ok" =>
        \E ct \in PublishedIndexes :
            /\ congestion_weight
                  = UpdateGraphWeights(congestion_weight, heap, ct,
                                       weight_factor10)
            /\ \A i \in DOMAIN route.route_details :
                  route.route_details[i].congestion_score
                      = CurrentScore(heap, ct, route.route_details[i].road_id)

(***************************************************************************)
(* Properties of the anomaly detector                                      *)
(***************************************************************************)
\* C13: with fewer than 10 snapshots in traffic_history (none included)
\* detect_anomalies returns the empty list and scores no road.
C13_ShortHistoryNoAnomalies ==
    (detect_pc = "returned" /\ history_len < 10)
        => (anomalies = <<>> /\ scoring = <<>>)

\* C13 witness: the call returned on a history of 9 snapshots whose latest
\* snapshot has roads.
C13_Witness ==
    /\ detect_pc = "returned"
    /\ history_len = 9
    /\ snapshot_roads # <<>>

\* C14: every returned AnomalyRecord is of a road of the latest snapshot that
\* predict labelled -1, in snapshot order and once each; its severity is High
\* exactly when its score is below -0.5 and Medium otherwise; every road
\* scored as an outlier before the call ended is returned, no inlier is.
C14_AnomalyRecords ==
    detect_pc = "returned"
        => LET flagged == {i \in DOMAIN scoring :
                              ~scoring[i].raises /\ scoring[i].prediction = -1}
           IN  /\ Len(anomalies) = Cardinality(flagged)
               /\ \A k \in DOMAIN anomalies :
                     /\ anomalies[k].severity \in {"High", "Medium"}
                     /\ anomalies[k].severity = "High"
                           <=> anomalies[k].anomaly_score < -50
                     /\ \E i \in flagged :
                           /\ snapshot_roads[i] = anomalies[k].road_id
                           /\ scoring[i].anomaly_score = anomalies[k].anomaly_score
                           /\ Cardinality({j \in flagged : j < i}) = k - 1

\* C14 witness: three roads were scored; the first is an outlier at exactly
\* -0.5 (Medium), the second an inlier, the third an outlier below -0.5.
C14_Witness ==
    /\ detect_pc = "returned"
    /\ Len(scoring) = 3
    /\ scoring[1].anomaly_score = -50
    /\ scoring[2].prediction = 1
    /\ scoring[3].anomaly_score = -51
    /\ Len(anomalies) = 2
    /\ anomalies[1].severity = "Medium"
    /\ anomalies[2].severity = "High"

\* C15: when scoring a road raises, detect_anomalies returns the empty list,
\* whichever road it is and whatever was flagged before it.
C15_ScoringErrorGivesNothing ==
    (detect_pc = "returned" /\ \E i \in DOMAIN scoring : scoring[i].raises)
        => anomalies = <<>>

(***************************************************************************)
(* Properties of the background loop                                       *)
(***************************************************************************)
\* The loop goes on after a failed tick, and ticks are attempted again and
\* again
\* a tick appended its snapshot and returned
TickReturned == loop_pc = "call" /\ loop_pc' = "sleep"

\* the tick trained exactly if it made the number of appends a multiple of
\* 20, and then on the last 50 snapshots (all of them if fewer)
RetrainsOnMultiplesOf20 ==
    TickReturned
        => /\ (loop_window' > 0) <=> (loop_ticks' = 0)
           /\ loop_window' > 0 => loop_window' = Min(loop_len', TRAIN_WINDOW)

\* C22: counting the ticks from the end of the initial fill, the anomaly
\* model is retrained on ticks 20, 40, 60, ... and on no other tick, for
\* every capacity and also once the history is at its capacity, each time
\* on the last 50 snapshots.
C22_RetrainEvery20 == [][RetrainsOnMultiplesOf20]_vars

\* The same while the history has not reached a capacity above the initial
\* fill
RetrainEvery20BelowCapacity ==
    [][(loop_len' < max_records /\ max_records > INITIAL_FILL)
          => RetrainsOnMultiplesOf20]_vars

LoopKeepsTicking ==
    /\ (loop_pc = "handler" /\ loop_error = "tick") ~> (loop_pc = "call")
    /\ []<>(loop_pc = "call")

\* C17: the background loop never stops because a tick failed: after
\* update_traffic_simulation raises, the loop catches the error and comes
\* back to attempt another tick, so ticks are attempted infinitely often.
C17_LoopNeverStops == LoopKeepsTicking

\* The same for a refresh interval that time.sleep accepts
LoopKeepsTickingValidInterval ==
    (refresh_interval >= 0) => LoopKeepsTicking

====
